---- MODULE Spec2Model ----
(***************************************************************************)
(* The RTC_Websocket client of src/src/Websocket.ts (classes               *)
(* RTC_EventEmitter, RTC_Room, RTC_Websocket): connection lifecycle,       *)
(* reconnection timers, deferred closes, queued sends, the inbound message *)
(* router and the room registry.                                           *)
(*                                                                         *)
(* One action is one task of the single-threaded event loop: a call of the *)
(* public API, a transport notification, a timer, a setImmediate callback. *)
(* Every handler is computed by operators on a record `st` holding the     *)
(* fields of the object, named as in the source; Commit writes the record  *)
(* back to the variables.                                                  *)
(***************************************************************************)
EXTENDS Integers, Sequences, FiniteSets, TLC

\* ------------------------------------------------------------ bounds
MaxSockets == 2      \* transport instances that still exist at one time
MaxTimers == 2       \* reconnect timers pending at one time
MaxPings == 2        \* keepalive intervals live at one time
MaxPolls == 1        \* 250 ms close-when-open polls live at one time
MaxImmediates == 1   \* setImmediate callbacks queued at one time
MaxQueue == 2        \* one-shot `open` listeners (queued sends) at one time
MaxSends == 2        \* send() calls of the application that are tracked
MaxRooms == 2        \* rooms in the registry at one time
MaxBus == 3          \* listeners registered on the event bus at one time
MaxRuns == 2         \* invocations counted for one one-shot registration
MaxDepth == 3        \* nested dispatch calls the call stack has room for
MaxListeners == 1    \* registrations of one kind under one name on a room bus

\* ------------------------------------------------------------ program constants
DefaultReconnectionInterval == 5000

RoomNames == {"lobby", "den"}
Intervals == {0, DefaultReconnectionInterval}
SocketIds == 1..MaxSockets
NoSocket == 0        \* this.websocket is undefined
NoTimer == 0         \* the handle is undefined, or names a timer that fired or was cleared

VARIABLES
    connectionState, willReconnect, canReconnect, reconnectionInterval,
    defaultAuthToken, isClientPingEnabled,
    sockets,                \* transport id -> readyState ("NONE": no such instance)
    websocket,              \* this.websocket
    timers,                 \* pending reconnect timers (setTimeout)
    timerAfter,             \* timer -> how many queued setImmediate callbacks run before it
    reconnectionTimeout,    \* this.reconnectionTimeout
    pingTimers,             \* live keepalive intervals (setInterval)
    pingPongIntervalTimer,  \* this.pingPongIntervalTimer
    immediates,             \* setImmediate queue
    polls,                  \* live 250 ms polls of closeNativeWebsocketConnection
    onOpen,                 \* listeners.on['open']: join closures, by room name
    onceOpen,               \* listeners.once['open']: queued sends
    rooms,                  \* this.rooms: each room's name and the listeners of its
                            \* own bus (on, once: name -> number of registrations)
    promise,                \* promises returned by the application's send() calls
    nextSend,
    \* history: close() was called and neither connect() nor reconnect() since
    closeCalled,
    \* history: the pending timers set by the handler of a close notification
    \* that no close() of this side and no error preceded
    autoTimers,
    \* history: the transport instances created by a timer of autoTimers
    viaReconnect,
    \* history: the names of the rooms joined while not open since the last
    \* open notification
    joinedSinceOpen,
    \* history: the names of the rooms whose leaveRoom has settled, with no
    \* joinRoom of the name since; kept for the names that have a join
    \* closure among the `open` listeners, the only rooms a later open can
    \* send a join envelope for
    leftRooms,
    \* history: for each queued setImmediate callback, the transport that was
    \* this.websocket when the close it carries out was requested
    closeFor,
    \* history: the transport the live 250 ms poll was set up to close
    pollFor,
    \* what the last task did
    step, emitted, wire, settled, invoked, uncaught,
    stateAt,                \* this.connectionState at each dispatch of `emitted`
    \* an RTC_EventEmitter of its own
    listeners,              \* this.listeners: 'on' and 'once', name -> listeners
    dispatched,             \* the name of the last dispatch ("" after on/once)
    calls,                  \* the listeners the last dispatch invoked, in order
    thrown,                 \* the last call on a bus threw to its caller
    \* an object of the standalone class Event
    eventListeners          \* this.listeners: 'on' and 'once', name -> list or undefined

vars == <<connectionState, willReconnect, canReconnect, reconnectionInterval,
          defaultAuthToken, isClientPingEnabled, sockets, websocket, timers,
          timerAfter, closeCalled, autoTimers, viaReconnect, reconnectionTimeout, pingTimers, pingPongIntervalTimer, immediates,
          polls, onOpen, onceOpen, rooms, promise, nextSend,
          joinedSinceOpen, leftRooms, closeFor, pollFor,
          step, emitted, wire, settled, invoked, uncaught, stateAt,
          listeners, dispatched, calls, thrown, eventListeners>>

busVars == <<listeners, dispatched, calls, thrown, eventListeners>>

connVars ==
    <<connectionState, willReconnect, canReconnect, reconnectionInterval,
      defaultAuthToken, isClientPingEnabled, sockets, websocket, timers,
      timerAfter, closeCalled, autoTimers, viaReconnect, reconnectionTimeout,
      pingTimers, pingPongIntervalTimer, immediates, polls, onOpen, onceOpen,
      rooms, promise, nextSend, joinedSinceOpen, leftRooms, closeFor, pollFor, step,
      emitted, wire, settled, invoked, uncaught, stateAt>>

\* ------------------------------------------------------------ envelopes
\* An outbound envelope and what send() closes over: the promise it settles
\* (k, 0 when the caller keeps no promise) and the index leaveRoom's
\* .then() splices (splice, 0 when there is none).
Env(event, rtype, rid, k, splice) ==
    [event |-> event, rtype |-> rtype, rid |-> rid, k |-> k, splice |-> splice]

NoEnv == Env("", "none", "", 0, 0)

joinEnv(name) == Env("room_join", "room", name, 0, 0)

leaveEnv(name, splice) == Env("room_leave", "room", name, 0, splice)

\* An inbound envelope as the message handler reads it.
Inbound(event, hasSender, rtype, rid) ==
    [event |-> event, hasSender |-> hasSender, rtype |-> rtype, rid |-> rid]

NoInbound == Inbound("", FALSE, "none", "")

\* ------------------------------------------------------------ the object as a record
Cur(op, sock, inb) ==
    [connectionState |-> connectionState, willReconnect |-> willReconnect,
     canReconnect |-> canReconnect, reconnectionInterval |-> reconnectionInterval,
     defaultAuthToken |-> defaultAuthToken, isClientPingEnabled |-> isClientPingEnabled,
     sockets |-> sockets, websocket |-> websocket, timers |-> timers,
     timerAfter |-> timerAfter, closeCalled |-> closeCalled, autoTimers |-> autoTimers,
     viaReconnect |-> viaReconnect, joinedSinceOpen |-> joinedSinceOpen,
     reconnectionTimeout |-> reconnectionTimeout, pingTimers |-> pingTimers,
     pingPongIntervalTimer |-> pingPongIntervalTimer, immediates |-> immediates,
     polls |-> polls, onOpen |-> onOpen, onceOpen |-> onceOpen, rooms |-> rooms,
     promise |-> promise,
     nextSend |-> nextSend,
     closeFor |-> closeFor, pollFor |-> pollFor, leftRooms |-> leftRooms,
     step |-> [op |-> op, sock |-> sock, inb |-> inb, room |-> ""],
     emitted |-> <<>>, wire |-> <<>>, settled |-> <<>>, invoked |-> <<>>,
     uncaught |-> FALSE, stateAt |-> <<>>,
     micro |-> <<>>,        \* promise reactions (.then) queued by this task
     target |-> websocket,  \* the transport the closes this task requests are for
     unexpected |-> FALSE,  \* the task handles an unexpected close notification
     overflow |-> FALSE]    \* the task needs more than the bounds allow

\* The smallest id of 1..max not in `used`, 0 when all are in use.
FreeId(used, max) ==
    IF \E i \in 1..max : i \notin used
    THEN CHOOSE i \in 1..max : i \notin used /\ \A j \in 1..max : j \notin used => i <= j
    ELSE 0

\* ------------------------------------------------------------ RTC_EventEmitter
\* dispatch(name) for a name under which only the application registers:
\* its listeners are invoked, in this order among the names of one task.
emit(st, name) ==
    [st EXCEPT !.emitted = Append(@, name), !.stateAt = Append(@, st.connectionState)]

\* ------------------------------------------------------------ transport primitives
\* this.websocket.send(event) throws when this.websocket is undefined
\* (TypeError) and when the instance is CONNECTING (InvalidStateError).
SendThrows(st) ==
    \/ st.websocket = NoSocket
    \/ st.sockets[st.websocket] = "CONNECTING"

\* WebSocket.send hands the text to the transport when the instance is
\* OPEN; on a CLOSING or CLOSED instance it returns normally and the text is
\* discarded.
Transmits(st) ==
    /\ st.websocket # NoSocket
    /\ st.sockets[st.websocket] = "OPEN"

\* WebSocket.close(): CONNECTING and OPEN go to CLOSING (the close
\* notification follows), CLOSING and CLOSED are left alone.
nativeClose(st, s) ==
    IF st.sockets[s] \in {"CONNECTING", "OPEN"}
    THEN [st EXCEPT !.sockets[s] = "CLOSING"]
    ELSE st

\* ------------------------------------------------------------ send
\* resolve(this) / reject(error) of the promise of one send() call.
settle(st, env, outcome) ==
    LET st1 == [st EXCEPT !.settled = Append(@, [env |-> env, outcome |-> outcome])]
        st2 == IF env.k > 0 THEN [st1 EXCEPT !.promise[env.k] = outcome] ELSE st1
    IN  IF outcome = "resolved" /\ env.splice > 0
        THEN [st2 EXCEPT !.micro = Append(@, env.splice)]
        ELSE st2

\* The send if a failure were also broadcast as an `error` event.
trySendBroadcast(st, env) ==
    IF SendThrows(st)
    THEN emit(settle(st, env, "rejected"), "error")
    ELSE IF Transmits(st)
    THEN settle([st EXCEPT !.wire = Append(@, [env |-> env, sock |-> st.websocket])],
                env, "resolved")
    ELSE settle(st, env, "resolved")

\* try { this.websocket.send(event); resolve(this) } catch (error) { reject(error) }
trySend(st, env) ==
    IF SendThrows(st)
    THEN settle(st, env, "rejected")
    ELSE IF Transmits(st)
    THEN settle([st EXCEPT !.wire = Append(@, [env |-> env, sock |-> st.websocket])],
                env, "resolved")
    ELSE settle(st, env, "resolved")

send(st, env) ==
    IF st.connectionState = "open"
    THEN trySend(st, env)
    ELSE [st EXCEPT !.onceOpen = Append(@, env)]

sendToSystem(st, event) == send(st, Env(event, "system", "system", 0, 0))

RECURSIVE forEachSend(_, _)
forEachSend(st, envs) ==
    IF envs = <<>> THEN st ELSE forEachSend(send(st, Head(envs)), Tail(envs))

RECURSIVE forEachTrySend(_, _)
forEachTrySend(st, envs) ==
    IF envs = <<>> THEN st ELSE forEachTrySend(trySend(st, Head(envs)), Tail(envs))

\* dispatch('open'): the persistent listeners (the rooms' join closures and
\* the application's), then the one-shot listeners as they were when the
\* loop started, then the one-shot list is deleted.
dispatchOpen(st) ==
    LET st1 == emit(st, "open")
        st2 == forEachSend(st1, [i \in 1..Len(st1.onOpen) |-> joinEnv(st1.onOpen[i])])
        st3 == forEachTrySend(st2, st2.onceOpen)
    IN  [st3 EXCEPT !.onceOpen = <<>>]

\* ------------------------------------------------------------ timers
startPingPong(st) ==
    LET p == FreeId(st.pingTimers, MaxPings) IN
    IF p = 0 THEN [st EXCEPT !.overflow = TRUE]
    ELSE [st EXCEPT !.pingTimers = @ \cup {p}, !.pingPongIntervalTimer = p]

stopPingPong(st) ==
    [st EXCEPT !.pingTimers = @ \ {st.pingPongIntervalTimer},
               !.pingPongIntervalTimer = NoTimer]

stopReconnectionTimeout(st) ==
    [st EXCEPT !.timers = @ \ {st.reconnectionTimeout},
               !.reconnectionTimeout = NoTimer]

\* this.reconnectionTimeout = setTimeout(() => this.createSocket(true), interval)
\* The interval is positive, so the setImmediate callbacks already queued
\* run before the timer does.
setReconnectionTimeout(st) ==
    LET t == FreeId(st.timers, MaxTimers) IN
    IF t = 0 THEN [st EXCEPT !.overflow = TRUE]
    ELSE [st EXCEPT !.timers = @ \cup {t}, !.reconnectionTimeout = t,
                    !.timerAfter[t] = Len(st.immediates),
                    !.autoTimers = IF st.unexpected THEN @ \cup {t} ELSE @ \ {t}]

\* ------------------------------------------------------------ lifecycle
closeConnection(st, reconnect) ==
    LET st1 == IF reconnect
               THEN [st EXCEPT !.willReconnect = TRUE,
                               !.connectionState = "internal_reconnection"]
               ELSE st
        st2 == IF st1.connectionState = "open" THEN sendToSystem(st1, "conn_close") ELSE st1
    IN  [st2 EXCEPT !.immediates = Append(@, "websocket.close"),
                    !.closeFor = Append(@, st.target)]

reconnect(st) ==
    IF st.canReconnect
    THEN LET st1 == closeConnection(st, TRUE) IN
         IF st1.reconnectionInterval # 0 THEN setReconnectionTimeout(st1) ELSE st1
    ELSE st

changeState(st, stateName) ==
    LET st1 == [st EXCEPT !.connectionState = stateName]
        st2 == IF stateName = "close" /\ st1.willReconnect THEN reconnect(st1) ELSE st1
    IN  IF stateName = "open" THEN dispatchOpen(st2) ELSE emit(st2, stateName)

closeNativeWebsocketConnection(st) ==
    IF st.websocket = NoSocket THEN st
    ELSE LET st1 == IF st.sockets[st.websocket] = "OPEN"
                    THEN nativeClose(st, st.websocket) ELSE st
         IN  IF st1.sockets[st1.websocket] = "CONNECTING"
             THEN [st1 EXCEPT !.polls = @ + 1, !.pollFor = st1.websocket]
             ELSE st1

createSocket(st, isReconnecting) ==
    LET st1 == IF isReconnecting
               THEN emit([st EXCEPT !.connectionState = "reconnecting"], "reconnecting")
               ELSE emit([st EXCEPT !.connectionState = "connecting"], "connecting")
        st2 == closeNativeWebsocketConnection(st1)
        \* a CLOSED instance is garbage once this.websocket is reassigned
        s   == FreeId({i \in SocketIds : st2.sockets[i] \notin {"NONE", "CLOSED"}}, MaxSockets)
    IN  IF s = 0 THEN [st2 EXCEPT !.overflow = TRUE]
        ELSE [st2 EXCEPT !.sockets[s] = "CONNECTING", !.websocket = s,
                         !.viaReconnect = @ \ {s},
                         \* the instance that had this id is garbage
                         !.closeFor = [i \in 1..Len(@) |->
                                          IF @[i] = s THEN NoSocket ELSE @[i]],
                         !.pollFor = IF @ = s THEN NoSocket ELSE @]

connect(st) == createSocket(st, FALSE)

close(st) ==
    LET st1 == stopReconnectionTimeout(stopPingPong([st EXCEPT !.willReconnect = FALSE]))
        st2 == forEachSend(st1, [i \in 1..Len(st1.rooms) |-> leaveEnv(st1.rooms[i].name, 0)])
    IN  [st2 EXCEPT !.immediates = Append(@, "close"),
                    !.closeFor = Append(@, st.target)]

\* ------------------------------------------------------------ transport handlers
\* The handler with the test of the state made after changeState('open').
openHandlerStateFirst(st) ==
    LET st1 == IF st.defaultAuthToken # ""
               THEN send(st, Env("auth.token", "none", "", 0, 0)) ELSE st
        st2 == IF st1.isClientPingEnabled THEN startPingPong(st1) ELSE st1
        st3 == changeState(st2, "open")
        st4 == IF st3.connectionState = "reconnecting" THEN emit(st3, "reconnect") ELSE st3
    IN  [st4 EXCEPT !.joinedSinceOpen = {}]

openHandler(st) ==
    LET st1 == IF st.defaultAuthToken # ""
               THEN send(st, Env("auth.token", "none", "", 0, 0)) ELSE st
        st2 == IF st1.connectionState = "reconnecting" THEN emit(st1, "reconnect") ELSE st1
        st3 == IF st2.isClientPingEnabled THEN startPingPong(st2) ELSE st2
    IN  [changeState(st3, "open") EXCEPT !.joinedSinceOpen = {}]

closeHandler(st) == changeState(stopPingPong(st), "close")

\* The handler if it treated the error as a close.
errorHandlerAsClose(st) == changeState(st, "close")

errorHandler(st) == changeState(st, "error")

\* ------------------------------------------------------------ RTC_Room
ListenerNames == {"all_events", "chat"}

RoomIndex == 1..MaxRooms

NoListeners == [n \in ListenerNames |-> 0]

RECURSIVE repeat(_, _)
repeat(x, n) == IF n = 0 THEN <<>> ELSE <<x>> \o repeat(x, n - 1)

\* this.rooms[room].emitEvent(name, event): dispatch on the room's own bus,
\* the persistent listeners under name, then the one-shot ones, which are
\* then deleted. (`room` is the room's index in this.rooms.)
emitEvent(st, room, name) ==
    LET nOn   == IF name \in ListenerNames THEN st.rooms[room].on[name] ELSE 0
        nOnce == IF name \in ListenerNames THEN st.rooms[room].once[name] ELSE 0
        st1   == [st EXCEPT !.invoked = @ \o repeat([room |-> room, name |-> name, kind |-> "on"], nOn)
                                          \o repeat([room |-> room, name |-> name, kind |-> "once"], nOnce)]
    IN  IF name \in ListenerNames THEN [st1 EXCEPT !.rooms[room].once[name] = 0] ELSE st1

\* The index of the first room of the registry named `name`, 0 when none is.
findRoom(st, name) ==
    IF \E i \in 1..Len(st.rooms) : st.rooms[i].name = name
    THEN CHOOSE i \in 1..Len(st.rooms) :
            /\ st.rooms[i].name = name
            /\ \A j \in 1..Len(st.rooms) : st.rooms[j].name = name => i <= j
    ELSE 0

joinRoom(st, name) ==
    LET st1 == IF st.connectionState = "open"
               THEN send(st, joinEnv(name))
               ELSE [st EXCEPT !.onOpen = Append(@, name),
                               !.joinedSinceOpen = @ \cup {name}]
    IN  IF Len(st.rooms) >= MaxRooms THEN [st EXCEPT !.overflow = TRUE]
        ELSE [st1 EXCEPT !.rooms = Append(@, [name |-> name, on |-> NoListeners,
                                              once |-> NoListeners]),
                         !.leftRooms = @ \ {name}]

\* room.leave().then(() => this.rooms.splice(i, 1)) for the first match
leaveRoom(st, name) ==
    LET i == findRoom(st, name) IN
    IF i = 0 THEN st ELSE send(st, leaveEnv(name, i))

\* A room.send whose receiver is read from the head of the registry.
roomSendAsFirst(st, i, event) ==
    send(st, Env(event, "room", st.rooms[1].name, 0, 0))

\* room.send(event, data) on the room object at index i of this.rooms:
\* connection.send(event, data, {type: 'room', id: this.name})
roomSend(st, i, event) ==
    send(st, Env(event, "room", st.rooms[i].name, 0, 0))

\* this.rooms.splice(i, 1), i counted from 1 here
splice(rs, i) ==
    IF i > Len(rs) THEN rs
    ELSE SubSeq(rs, 1, i - 1) \o SubSeq(rs, i + 1, Len(rs))

RECURSIVE runMicrotasks(_, _)
runMicrotasks(rs, micro) ==
    IF micro = <<>> THEN rs ELSE runMicrotasks(splice(rs, Head(micro)), Tail(micro))

\* ------------------------------------------------------------ message router
\* The 'message' listener the constructor registers.
router(st, e) ==
    IF e.event = "" THEN st
    ELSE LET st1 == emit(emit(st, "event"), "event." \o e.event) IN
         IF e.event = "conn.rejected"
         THEN [stopReconnectionTimeout(stopPingPong(st1)) EXCEPT !.canReconnect = FALSE]
         ELSE IF e.rtype = "none"
         THEN [st1 EXCEPT !.uncaught = TRUE]     \* event.receiver is undefined
         ELSE IF e.rtype = "room" /\ findRoom(st1, e.rid) # 0
         THEN LET room == findRoom(st1, e.rid) IN
              emitEvent(emitEvent(st1, room, "all_events"), room, e.event)
         ELSE st1

\* dispatch('message', [event]): the router, registered first, then the
\* application's listeners unless the router threw.
dispatchMessage(st, e) ==
    LET st1 == router(st, e) IN
    IF st1.uncaught THEN st1 ELSE emit(st1, "message")

messageHandler(st, e) ==
    IF e.event = "pong" THEN st
    ELSE IF e.event = "ping" THEN sendToSystem(st, "pong")
    ELSE IF ~e.hasSender THEN [st EXCEPT !.uncaught = TRUE]   \* event.sender is undefined
    ELSE dispatchMessage(st, e)

\* ------------------------------------------------------------ deferred callbacks
\* setImmediate(() => this.websocket.close())
immediateWebsocketClose(st) ==
    IF st.websocket = NoSocket THEN [st EXCEPT !.uncaught = TRUE]
    ELSE nativeClose(st, st.websocket)

\* The callback without its dispatch of `custom.disconnect`.
immediateCloseSilent(st) == closeConnection(st, FALSE)

\* setImmediate(() => { this.closeConnection(false); dispatch('custom.disconnect') })
immediateClose(st) == emit(closeConnection(st, FALSE), "custom.disconnect")

\* The callback of the interval closeNativeWebsocketConnection sets, when
\* it finds this.websocket OPEN: close it and clear the interval.
pollTick(st) == [nativeClose(st, st.websocket) EXCEPT !.polls = @ - 1]

\* ------------------------------------------------------------ RTC_EventEmitter, in full
\* The names listeners are registered under, and the listener functions:
\* `boom` throws when it is invoked.
BusNames == {"chat", "room_joined"}

Fns == {"f", "g", "boom"}

Throws(f) == f = "boom"

\* The listener `again` calls dispatch of the name it is invoked for, on
\* the same bus.
Redispatches(f) == f = "again"

\* constructor: this.listeners = {on: {}, once: {}}. A name without an
\* entry is the empty list here. A one-shot entry carries the history of
\* how many dispatches invoked it.
NoBusListeners ==
    [on |-> [n \in BusNames |-> <<>>], once |-> [n \in BusNames |-> <<>>]]

on(ls, name, f) == [ls EXCEPT !.on[name] = Append(@, f)]

once(ls, name, f) == [ls EXCEPT !.once[name] = Append(@, [fn |-> f, runs |-> 0])]

RECURSIVE forEachAt(_, _, _, _, _, _)
RECURSIVE dispatchAt(_, _, _)

\* fs.forEach(listener => listener(...)) from position i on, in the dispatch
\* call at `depth` of the call stack: the listeners are invoked in order; one
\* that throws ends the loop; one that calls dispatch runs that call to its
\* end before the next listener, and fails with a RangeError when the stack
\* has no room for it. fs is the array the loop started on, whatever the
\* nested call deletes. The result is the registry, the listeners invoked
\* and whether the loop was left by an exception.
forEachAt(fs, i, kind, ls, name, depth) ==
    IF i > Len(fs) THEN [listeners |-> ls, calls |-> <<>>, thrown |-> FALSE]
    ELSE LET me  == <<[kind |-> kind, fn |-> fs[i]]>>
             ls1 == IF kind = "once" /\ i <= Len(ls.once[name])
                    THEN [ls EXCEPT !.once[name][i].runs = @ + 1] ELSE ls
         IN  IF Throws(fs[i]) THEN [listeners |-> ls1, calls |-> me, thrown |-> TRUE]
             ELSE LET inner == IF ~Redispatches(fs[i])
                               THEN [listeners |-> ls1, calls |-> <<>>, thrown |-> FALSE]
                               ELSE IF depth >= MaxDepth
                               THEN [listeners |-> ls1, calls |-> <<>>, thrown |-> TRUE]
                               ELSE dispatchAt(ls1, name, depth + 1)
                  IN  IF inner.thrown
                      THEN [listeners |-> inner.listeners, calls |-> me \o inner.calls,
                            thrown |-> TRUE]
                      ELSE LET rest == forEachAt(fs, i + 1, kind, inner.listeners, name, depth)
                           IN  [listeners |-> rest.listeners,
                                calls |-> me \o inner.calls \o rest.calls,
                                thrown |-> rest.thrown]

\* The body of dispatch(name) at `depth` of the call stack: the persistent
\* listeners, then the one-shot listeners registered when their loop starts,
\* then `delete onceEvent[name]`; an exception ends the call where it happens.
dispatchAt(ls, name, depth) ==
    LET r1 == forEachAt(ls.on[name], 1, "on", ls, name, depth) IN
    IF r1.thrown THEN r1
    ELSE LET onceFns == [i \in 1..Len(r1.listeners.once[name]) |->
                            r1.listeners.once[name][i].fn]
             r2 == forEachAt(onceFns, 1, "once", r1.listeners, name, depth)
         IN  [listeners |-> IF r2.thrown THEN r2.listeners
                            ELSE [r2.listeners EXCEPT !.once[name] = <<>>],
              calls |-> r1.calls \o r2.calls,
              thrown |-> r2.thrown]

\* A dispatch that runs the one-shot listeners before the persistent ones.
dispatchOnceFirst(ls, name) ==
    LET onceFns == [i \in 1..Len(ls.once[name]) |-> ls.once[name][i].fn] IN
    [listeners |-> [ls EXCEPT !.once[name] = <<>>],
     calls |-> [i \in 1..Len(onceFns) |-> [kind |-> "once", fn |-> onceFns[i]]]
               \o [i \in 1..Len(ls.on[name]) |-> [kind |-> "on", fn |-> ls.on[name][i]]],
     thrown |-> \E i \in 1..Len(onceFns) : Throws(onceFns[i])]

\* A dispatch that isolates its listeners: a throw is caught and the
\* listeners after it still run.
dispatchIsolated(ls, name) ==
    [listeners |-> [ls EXCEPT !.once[name] = <<>>],
     calls |-> [i \in 1..Len(ls.on[name]) |-> [kind |-> "on", fn |-> ls.on[name][i]]]
               \o [i \in 1..Len(ls.once[name]) |->
                        [kind |-> "once", fn |-> ls.once[name][i].fn]],
     thrown |-> FALSE]

\* dispatch(name), called by the program or the application
dispatch(ls, name) == dispatchAt(ls, name, 1)

\* ------------------------------------------------------------ Event (the standalone class)
\* A property of this.listeners['on'] or ['once']: undefined, or an array.
Undefined == [defined |-> FALSE, fns |-> <<>>]

\* constructor: this.listeners = {on: {}, once: {}}
NoEventListeners ==
    [on |-> [n \in BusNames |-> Undefined], once |-> [n \in BusNames |-> Undefined]]

\* An array of listeners after push(f); `once` records that the push was
\* made by once(), `runs` how many dispatches invoked such a listener.
push(arr, f, byOnce) ==
    [defined |-> TRUE, fns |-> Append(arr.fns, [fn |-> f, once |-> byOnce, runs |-> 0])]

\* on(name, listener): creates the array when there is none, then pushes.
Event_on(ls, name, f) ==
    [listeners |-> [ls EXCEPT !.on[name] = push(@, f, FALSE)], thrown |-> FALSE]

\* once(name, listener): creates this.listeners['once'][name] when there is
\* none, then pushes onto this.listeners['on'][name]: a TypeError when that
\* is undefined.
Event_once(ls, name, f) ==
    LET ls1 == [ls EXCEPT !.once[name].defined = TRUE] IN
    IF ~ls1.on[name].defined
    THEN [listeners |-> ls1, thrown |-> TRUE]
    ELSE [listeners |-> [ls1 EXCEPT !.on[name] = push(@, f, TRUE)], thrown |-> FALSE]

\* arr.forEach(listener => listener(...)): the listeners invoked, in order,
\* up to and including the first that throws.
RECURSIVE Event_forEach(_)
Event_forEach(fs) ==
    IF fs = <<>> THEN <<>>
    ELSE IF Throws(Head(fs).fn) THEN <<Head(fs)>>
    ELSE <<Head(fs)>> \o Event_forEach(Tail(fs))

\* The listeners of an array with the first k counted as invoked once more.
Event_ran(fs, k) ==
    [i \in 1..Len(fs) |->
        IF i <= k /\ fs[i].once THEN [fs[i] EXCEPT !.runs = @ + 1] ELSE fs[i]]

\* dispatch(name): the listeners of this.listeners['on'][name], then those
\* of this.listeners['once'][name], then `delete onceEvent[name]`; a throw
\* ends the call where it happens.
Event_dispatch(ls, name) ==
    LET ran       == Event_forEach(ls.on[name].fns)
        onThrew   == ran # <<>> /\ Throws(ran[Len(ran)].fn)
        ranOnce   == IF onThrew THEN <<>> ELSE Event_forEach(ls.once[name].fns)
        onceThrew == ranOnce # <<>> /\ Throws(ranOnce[Len(ranOnce)].fn)
        ls1       == [ls EXCEPT !.on[name].fns = Event_ran(@, Len(ran)),
                                !.once[name].fns = Event_ran(@, Len(ranOnce))]
    IN  [listeners |-> IF onThrew \/ onceThrew THEN ls1
                       ELSE [ls1 EXCEPT !.once[name] = Undefined],
         calls |-> [i \in 1..Len(ran) |-> [kind |-> "on", fn |-> ran[i].fn]]
                   \o [i \in 1..Len(ranOnce) |-> [kind |-> "once", fn |-> ranOnce[i].fn]],
         thrown |-> onThrew \/ onceThrew]

\* ------------------------------------------------------------ state machine
Init ==
    /\ connectionState = "standby"
    /\ willReconnect = TRUE
    /\ canReconnect = TRUE
    /\ reconnectionInterval = DefaultReconnectionInterval
    /\ defaultAuthToken = ""
    /\ isClientPingEnabled = FALSE
    /\ sockets = [s \in SocketIds |-> "NONE"]
    /\ websocket = NoSocket
    /\ timers = {}
    /\ timerAfter = [t \in 1..MaxTimers |-> 0]
    /\ closeCalled = FALSE
    /\ autoTimers = {}
    /\ viaReconnect = {}
    /\ reconnectionTimeout = NoTimer
    /\ pingTimers = {}
    /\ pingPongIntervalTimer = NoTimer
    /\ immediates = <<>>
    /\ polls = 0
    /\ onOpen = <<>>
    /\ onceOpen = <<>>
    /\ rooms = <<>>
    /\ promise = [k \in 1..MaxSends |-> "none"]
    /\ nextSend = 1
    /\ closeFor = <<>>
    /\ pollFor = NoSocket
    /\ leftRooms = {}
    /\ step = [op |-> "new", sock |-> NoSocket, inb |-> NoInbound, room |-> ""]
    /\ emitted = <<>>
    /\ wire = <<>>
    /\ settled = <<>>
    /\ invoked = <<>>
    /\ uncaught = FALSE
    /\ stateAt = <<>>
    /\ joinedSinceOpen = {}
    /\ listeners = NoBusListeners
    /\ dispatched = ""
    /\ calls = <<>>
    /\ thrown = FALSE
    /\ eventListeners = NoEventListeners

\* The transport instance s no longer exists when the task ends.
Gone(st, s) == st.sockets[s] = "NONE" \/ (st.sockets[s] = "CLOSED" /\ s # st.websocket)

\* The task's result becomes the next state, after the promise reactions
\* it queued have run; a task that needs more than the bounds is not taken.
Commit(st) ==
    /\ ~st.overflow
    /\ Cardinality(st.timers) <= MaxTimers
    /\ Len(st.immediates) <= MaxImmediates
    /\ st.polls <= MaxPolls
    /\ Len(st.onceOpen) <= MaxQueue
    /\ Len(st.onOpen) <= MaxQueue
    /\ connectionState' = st.connectionState
    /\ willReconnect' = st.willReconnect
    /\ canReconnect' = st.canReconnect
    /\ reconnectionInterval' = st.reconnectionInterval
    /\ defaultAuthToken' = st.defaultAuthToken
    /\ isClientPingEnabled' = st.isClientPingEnabled
    /\ sockets' = [s \in SocketIds |->
                     IF st.sockets[s] = "CLOSED" /\ s # st.websocket
                     THEN "NONE" ELSE st.sockets[s]]
    /\ websocket' = st.websocket
    /\ timers' = st.timers
    /\ timerAfter' = [t \in 1..MaxTimers |-> IF t \in st.timers THEN st.timerAfter[t] ELSE 0]
    /\ closeCalled' = st.closeCalled
    /\ autoTimers' = st.autoTimers \cap st.timers
    /\ viaReconnect' = {s \in st.viaReconnect : st.sockets[s] # "CLOSED" \/ s = st.websocket}
    /\ reconnectionTimeout' = st.reconnectionTimeout
    /\ pingTimers' = st.pingTimers
    /\ pingPongIntervalTimer' = st.pingPongIntervalTimer
    /\ immediates' = st.immediates
    /\ polls' = st.polls
    /\ onOpen' = st.onOpen
    /\ onceOpen' = st.onceOpen
    /\ rooms' = runMicrotasks(st.rooms, st.micro)
    /\ promise' = st.promise
    /\ nextSend' = st.nextSend
    /\ step' = st.step
    /\ emitted' = st.emitted
    /\ wire' = st.wire
    /\ settled' = st.settled
    /\ invoked' = st.invoked
    /\ uncaught' = st.uncaught
    /\ stateAt' = st.stateAt
    /\ UNCHANGED busVars
    /\ joinedSinceOpen' = st.joinedSinceOpen
    /\ leftRooms' = {n \in st.leftRooms \cup
            {st.settled[i].env.rid : i \in {j \in 1..Len(st.settled) :
                st.settled[j].env.event = "room_leave" /\ st.settled[j].env.splice > 0}} :
                    \E i \in 1..Len(st.onOpen) : st.onOpen[i] = n}
    /\ closeFor' = [i \in 1..Len(st.closeFor) |->
                        IF st.closeFor[i] # NoSocket /\ Gone(st, st.closeFor[i])
                        THEN NoSocket ELSE st.closeFor[i]]
    /\ pollFor' = IF st.polls = 0 \/ st.pollFor = NoSocket \/ Gone(st, st.pollFor)
                  THEN NoSocket ELSE st.pollFor

\* ---- calls of the application
Connect ==
    \E st \in {Cur("connect", NoSocket, NoInbound)} :
        Commit(connect([st EXCEPT !.closeCalled = FALSE]))

Reconnect ==
    \E st \in {Cur("reconnect", NoSocket, NoInbound)} :
        Commit(reconnect([st EXCEPT !.closeCalled = FALSE]))

Close ==
    \E st \in {Cur("close", NoSocket, NoInbound)} :
        Commit(close([st EXCEPT !.closeCalled = TRUE]))

SetReconnectionInterval ==
    \E v \in Intervals :
        /\ v # reconnectionInterval
        /\ Commit([Cur("setReconnectionInterval", NoSocket, NoInbound)
                      EXCEPT !.reconnectionInterval = v])

SetAuthToken ==
    /\ defaultAuthToken = ""
    /\ Commit([Cur("setAuthToken", NoSocket, NoInbound) EXCEPT !.defaultAuthToken = "token"])

EnableClientPing ==
    /\ ~isClientPingEnabled
    /\ Commit([Cur("enableClientPing", NoSocket, NoInbound) EXCEPT !.isClientPingEnabled = TRUE])

\* send(event, data) of the application, its promise kept as promise[k]
Send ==
    /\ nextSend <= MaxSends
    /\ LET st == Cur("send", NoSocket, NoInbound)
           st1 == [st EXCEPT !.promise[nextSend] = "pending", !.nextSend = @ + 1]
       IN  Commit(send(st1, Env("chat", "none", "", nextSend, 0)))

JoinRoom ==
    \E n \in RoomNames :
        /\ Len(rooms) < MaxRooms
        /\ Commit(joinRoom([Cur("joinRoom", NoSocket, NoInbound) EXCEPT !.step.room = n], n))

LeaveRoom ==
    \E n \in RoomNames :
        /\ findRoom(Cur("leaveRoom", NoSocket, NoInbound), n) # 0
        /\ Commit(leaveRoom([Cur("leaveRoom", NoSocket, NoInbound) EXCEPT !.step.room = n], n))

\* room.on(name, listener) / room.once(name, listener) on a room of the registry
RoomOn ==
    \E i \in 1..Len(rooms), n \in ListenerNames :
        /\ rooms[i].on[n] < MaxListeners
        /\ Commit([Cur("room.on", NoSocket, NoInbound) EXCEPT !.rooms[i].on[n] = @ + 1])

RoomOnce ==
    \E i \in 1..Len(rooms), n \in ListenerNames :
        /\ rooms[i].once[n] < MaxListeners
        /\ Commit([Cur("room.once", NoSocket, NoInbound) EXCEPT !.rooms[i].once[n] = @ + 1])

\* room.send('chat', data) on a room object of the registry
RoomSend ==
    \E i \in 1..Len(rooms) :
        Commit(roomSend([Cur("room.send", NoSocket, NoInbound) EXCEPT
                            !.step.room = rooms[i].name], i, "chat"))

\* ---- notifications of a transport instance
SockOpen ==
    \E s \in SocketIds :
        /\ sockets[s] = "CONNECTING"
        /\ Commit(openHandler([Cur("open", s, NoInbound) EXCEPT !.sockets[s] = "OPEN"]))

\* The transport failed: it is no longer usable, its close notification follows.
SockError ==
    \E s \in SocketIds :
        /\ sockets[s] \in {"CONNECTING", "OPEN"}
        /\ Commit(errorHandler([Cur("error", s, NoInbound) EXCEPT !.sockets[s] = "CLOSING"]))

SockClose ==
    \E s \in SocketIds :
        /\ sockets[s] \in {"CONNECTING", "OPEN", "CLOSING"}
        /\ Commit(closeHandler([Cur("close.event", s, NoInbound) EXCEPT
                    !.sockets[s] = "CLOSED",
                    !.unexpected = sockets[s] \in {"CONNECTING", "OPEN"}]))

\* An inbound message, drawn from the set `inbounds`.
SockMessage(inbounds) ==
    \E s \in SocketIds, e \in inbounds :
        /\ sockets[s] = "OPEN"
        /\ Commit(messageHandler(Cur("message", s, e), e))

\* The control messages of the server.
ControlInbounds ==
    {Inbound(ev, TRUE, "system", "system") : ev \in {"ping", "conn.rejected"}}

\* ---- timers and deferred callbacks
ReconnectTimer ==
    \E t \in timers :
        /\ timerAfter[t] = 0
        /\ LET st == Cur("reconnectTimer", NoSocket, NoInbound)
               st1 == [st EXCEPT !.timers = @ \ {t},
                                 !.reconnectionTimeout = IF @ = t THEN NoTimer ELSE @]
               st2 == createSocket(st1, TRUE)
           IN  Commit(IF t \in autoTimers /\ ~st2.overflow
                      THEN [st2 EXCEPT !.viaReconnect = @ \cup {st2.websocket}]
                      ELSE st2)

PingTimer ==
    \E p \in pingTimers : Commit(sendToSystem(Cur("pingTimer", NoSocket, NoInbound), "ping"))

RunImmediate ==
    /\ immediates # <<>>
    /\ LET st == [Cur("immediate", NoSocket, NoInbound) EXCEPT
                    !.immediates = Tail(@),
                    !.closeFor = Tail(@),
                    !.target = Head(closeFor),
                    !.timerAfter = [t \in 1..MaxTimers |-> IF @[t] > 0 THEN @[t] - 1 ELSE 0]] IN
       IF Head(immediates) = "close"
       THEN Commit(immediateClose(st))
       ELSE Commit(immediateWebsocketClose(st))

PollTick ==
    /\ polls > 0
    /\ websocket # NoSocket
    /\ sockets[websocket] = "OPEN"
    /\ Commit(pollTick(Cur("poll", NoSocket, NoInbound)))

\* ---- the event bus
Registrations ==
    LET Sum(f) == f["chat"] + f["room_joined"] IN
    Sum([n \in BusNames |-> Len(listeners.on[n])])
        + Sum([n \in BusNames |-> Len(listeners.once[n])])

BusOn ==
    \E n \in BusNames, f \in Fns :
        /\ Registrations < MaxBus
        /\ listeners' = on(listeners, n, f)
        /\ dispatched' = ""
        /\ calls' = <<>>
        /\ thrown' = FALSE
        /\ UNCHANGED <<connVars, eventListeners>>

BusOnce ==
    \E n \in BusNames, f \in Fns :
        /\ Registrations < MaxBus
        /\ listeners' = once(listeners, n, f)
        /\ dispatched' = ""
        /\ calls' = <<>>
        /\ thrown' = FALSE
        /\ UNCHANGED <<connVars, eventListeners>>

BusDispatch ==
    \E n \in BusNames :
        /\ \A i \in 1..Len(listeners.once[n]) : listeners.once[n][i].runs < MaxRuns
        /\ listeners' = dispatch(listeners, n).listeners
        /\ dispatched' = n
        /\ calls' = dispatch(listeners, n).calls
        /\ thrown' = dispatch(listeners, n).thrown
        /\ UNCHANGED <<connVars, eventListeners>>

\* once(name, listener) with a listener that dispatches the name again
BusOnceAgain ==
    \E n \in BusNames :
        /\ Registrations < MaxBus
        /\ listeners' = once(listeners, n, "again")
        /\ dispatched' = ""
        /\ calls' = <<>>
        /\ thrown' = FALSE
        /\ UNCHANGED <<connVars, eventListeners>>

NextBus == BusOn \/ BusOnce \/ BusDispatch

SpecBus == Init /\ [][NextBus]_vars

\* ---- the standalone class Event
EventRegistrations ==
    LET Sum(f) == f["chat"] + f["room_joined"] IN
    Sum([n \in BusNames |-> Len(eventListeners.on[n].fns)])
        + Sum([n \in BusNames |-> Len(eventListeners.once[n].fns)])

EventOn ==
    \E n \in BusNames, f \in Fns :
        /\ EventRegistrations < MaxBus
        /\ eventListeners' = Event_on(eventListeners, n, f).listeners
        /\ dispatched' = ""
        /\ calls' = <<>>
        /\ thrown' = Event_on(eventListeners, n, f).thrown
        /\ UNCHANGED <<connVars, listeners>>

EventOnce ==
    \E n \in BusNames, f \in Fns :
        /\ EventRegistrations < MaxBus
        /\ eventListeners' = Event_once(eventListeners, n, f).listeners
        /\ dispatched' = ""
        /\ calls' = <<>>
        /\ thrown' = Event_once(eventListeners, n, f).thrown
        /\ UNCHANGED <<connVars, listeners>>

EventDispatch ==
    \E n \in BusNames :
        /\ \A i \in 1..Len(eventListeners.on[n].fns) :
                eventListeners.on[n].fns[i].runs < MaxRuns
        /\ eventListeners' = Event_dispatch(eventListeners, n).listeners
        /\ dispatched' = n
        /\ calls' = Event_dispatch(eventListeners, n).calls
        /\ thrown' = Event_dispatch(eventListeners, n).thrown
        /\ UNCHANGED <<connVars, listeners>>

NextEvent == EventOn \/ EventOnce \/ EventDispatch

SpecEvent == Init /\ [][NextEvent]_vars

\* The application sets the interval on the new object, before it uses it.
Configure == step.op = "new" /\ SetReconnectionInterval

\* The application calls reconnect() and close() on a connection it has
\* connected, as RTC_Websocket.create() hands it out.
ReconnectCall == websocket # NoSocket /\ Reconnect

CloseCall == websocket # NoSocket /\ Close

\* The messages of the server in the lifecycle specification.
ControlMessage == SockMessage(ControlInbounds)

\* The connection lifecycle: the calls connect(), reconnect(), close(), the
\* notifications of the transports, the control messages, the timers.
Next ==
    \/ Configure \/ Connect \/ ReconnectCall \/ CloseCall
    \/ SockOpen \/ SockError \/ SockClose \/ ControlMessage
    \/ ReconnectTimer \/ RunImmediate \/ PollTick

Spec == Init /\ [][Next]_vars

\* ------------------------------------------------------------ claims: lifecycle
Live(s) == sockets[s] \in {"CONNECTING", "OPEN"}

Emitted(name) == \E i \in 1..Len(emitted) : emitted[i] = name

\* C2: in every reachable state at most one reconnect timer is pending.
C2_AtMostOneReconnectTimer == Cardinality(timers) <= 1

\* C3: in every reachable state at most one transport instance created by
\* the connection is live (CONNECTING or OPEN).
C3_AtMostOneLiveTransport == Cardinality({s \in SocketIds : Live(s)}) <= 1

\* C4: whenever getState() is `open`, the transport the connection holds is
\* in the OPEN ready state.
C4_OpenStateHoldsOpenTransport ==
    connectionState = "open" => websocket # NoSocket /\ sockets[websocket] = "OPEN"

\* C5: after close(), with no connect() and no reconnect() called since, no
\* reconnect timer fires (and so the reconnection procedure creates no transport).
C5_NoReconnectTimerAfterClose == step.op = "reconnectTimer" => ~closeCalled

\* C6: a manual reconnect() schedules exactly one reconnection attempt,
\* whatever the interval, and the close notification that arrives while the
\* state marks the internal reconnection schedules no further one.
C6_ManualReconnectSchedulesOnce ==
    [][/\ step'.op = "reconnect" /\ canReconnect => Cardinality(timers' \ timers) = 1
       /\ step'.op = "close.event" /\ connectionState = "internal_reconnection"
            => timers' \subseteq timers]_vars

\* C7: once conn.rejected has been processed (canReconnect is false from then
\* on), no reconnect timer fires and no task schedules one.
C7_NoReconnectAfterRejected ==
    [][~canReconnect => step'.op # "reconnectTimer" /\ timers' \subseteq timers]_vars

\* C8: an unexpected close with automatic reconnection enabled and a positive
\* interval emits `close` and leaves a reconnect timer pending; the timer,
\* firing, emits `reconnecting` and creates a transport; when that transport
\* opens, `reconnect` is emitted.
C8_UnexpectedCloseReconnects ==
    [][/\ ( /\ step'.op = "close.event"
            /\ sockets[step'.sock] \in {"CONNECTING", "OPEN"}
            /\ willReconnect /\ canReconnect /\ reconnectionInterval # 0 )
            => Emitted("close")' /\ reconnectionTimeout' \in autoTimers'
       /\ step'.op = "reconnectTimer"
            => Emitted("reconnecting")' /\ sockets'[websocket'] = "CONNECTING"
       /\ step'.op = "open" /\ step'.sock \in viaReconnect
            => Emitted("reconnect")']_vars

\* C9: an inbound `ping` that arrives while the state is `open` transmits
\* exactly one `pong` addressed to the system receiver and invokes no
\* listener of the application.
C9_PingAnsweredByOnePong ==
    step.op = "message" /\ step.inb.event = "ping" /\ connectionState = "open"
        => /\ Len(wire) = 1
           /\ wire[1].env.event = "pong"
           /\ wire[1].env.rtype = "system" /\ wire[1].env.rid = "system"
           /\ emitted = <<>>
           /\ invoked = <<>>

\* ------------------------------------------------------------ claims: queued sends
\* The lifecycle with the application's send() calls.
NextSend ==
    \/ Connect \/ ReconnectCall \/ CloseCall \/ Send
    \/ SockOpen \/ SockError \/ SockClose
    \/ ReconnectTimer \/ RunImmediate \/ PollTick

SpecSend == Init /\ [][NextSend]_vars

\* The envelopes of the application's send() calls among those handed to
\* the transport by the last task, in the order they were handed over.
UserWire == SelectSeq(wire, LAMBDA w : w.env.k > 0)

Pending == {k \in 1..MaxSends : promise[k] = "pending"}

\* C1: a promise of a send() made while not open stays unsettled until a
\* transport `open` notification; at that notification every queued envelope
\* is handed to the transport and its promise resolved, in the order of the
\* send() calls.
C1_QueuedSendsFlushInOrderAtOpen ==
    [][/\ \A k \in Pending : promise'[k] # "pending" => step'.op = "open"
       /\ step'.op = "open" =>
            /\ \A k \in Pending : promise'[k] = "resolved"
            /\ {UserWire'[i].env.k : i \in 1..Len(UserWire')} = Pending
            /\ \A i, j \in 1..Len(UserWire') : i < j => UserWire'[i].env.k < UserWire'[j].env.k]_vars

\* ------------------------------------------------------------ claims: room routing
RoomEvents == {"chat", "all_events", "ping", "conn.rejected", ""}

\* Messages addressed to a room, with a sender or (for `chat`) without
\* one, and one addressed to the server.
RoomInbounds ==
    {Inbound(ev, TRUE, "room", n) : ev \in RoomEvents, n \in RoomNames}
        \cup {Inbound("chat", FALSE, "room", n) : n \in RoomNames}
        \cup {Inbound("chat", TRUE, "server", "server")}

RoomMessage == SockMessage(RoomInbounds)

\* The application connects the new object once.
FirstConnect == connectionState = "standby" /\ Connect

\* The room registry over one connection: rooms are joined and left and
\* listeners registered before and after the transport opens.
NextRooms ==
    \/ FirstConnect \/ SockOpen
    \/ JoinRoom \/ LeaveRoom \/ RoomOn \/ RoomOnce \/ RoomMessage

SpecRooms == Init /\ [][NextRooms]_vars

\* How many times the last task invoked the listeners of one kind that the
\* room at index r of the registry holds under name n.
Invocations(r, n, kind) ==
    Cardinality({i \in 1..Len(invoked) :
        invoked[i] = [room |-> r, name |-> n, kind |-> kind]})

Registered(r, n, kind) ==
    IF r > Len(rooms) THEN 0
    ELSE IF kind = "on" THEN rooms[r].on[n] ELSE rooms[r].once[n]

\* The room an envelope for the room named n is routed to: the first room
\* of the registry with that name (0 when there is none).
Target(n) ==
    IF \E i \in 1..Len(rooms) : rooms[i].name = n
    THEN CHOOSE i \in 1..Len(rooms) :
            /\ rooms[i].name = n
            /\ \A j \in 1..(i - 1) : rooms[j].name # n
    ELSE 0

\* The listeners of the room named by the envelope, under `all_events` and
\* under the envelope's event name, are invoked once per registration, and
\* no other listener of any room is.
RoutedToRoom(e) ==
    \A r \in RoomIndex, n \in ListenerNames, kind \in {"on", "once"} :
        Invocations(r, n, kind)' =
            IF r = Target(e.rid) /\ n \in {"all_events", e.event}
            THEN Registered(r, n, kind) ELSE 0

\* C10: for an inbound envelope whose receiver is a room (here one the
\* router surfaces: its event name is not empty and not a control event),
\* exactly the listeners of the room of that name under `all_events` and
\* under the event name are invoked, once per registration, and no listener
\* of another room; none at all when no room of that name is registered.
C10_RoomEnvelopeRouted ==
    [][( /\ step'.op = "message"
         /\ step'.inb.rtype = "room"
         /\ step'.inb.event \notin {"", "ping", "pong", "conn.rejected"} )
        => RoutedToRoom(step'.inb)]_vars

\* What the router does guarantee: an inbound envelope that has a sender,
\* whose event name is not empty, not a control event and not `all_events`,
\* and whose receiver is a room, reaches the listeners of the first room of
\* that name and no others.
RoomEnvelopeWithSenderRouted ==
    [][( /\ step'.op = "message"
         /\ step'.inb.rtype = "room"
         /\ step'.inb.hasSender
         /\ step'.inb.event \notin {"", "ping", "pong", "conn.rejected", "all_events"} )
        => RoutedToRoom(step'.inb)]_vars

\* A `chat` envelope for a room was routed to listeners of both names while
\* a room after it in the registry, with a listener of its own, stayed silent.
RoomEnvelopeWithSenderRouted_Witness ==
    /\ step.op = "message" /\ step.inb.event = "chat" /\ step.inb.rtype = "room"
    /\ Len(rooms) = 2
    /\ Invocations(1, "all_events", "on") = 1
    /\ Invocations(1, "chat", "once") = 1
    /\ rooms[2].on["chat"] = 1
    /\ Invocations(2, "chat", "on") = 0

\* ------------------------------------------------------------ claims: leaving a room
\* The rooms of the registry named n.
RoomsNamed(n) == {j \in 1..Len(rooms) : rooms[j].name = n}

\* C11: once the promise of the leave envelope that leaveRoom(name) sent has
\* settled (resolved or rejected), no room named `name` is in the registry
\* (getRoom(name) is null); stated for a name that one room of the registry
\* bears.
C11_LeftRoomRemoved ==
    [][\A i \in 1..Len(settled') :
          ( /\ settled'[i].env.event = "room_leave"
            /\ settled'[i].env.splice > 0
            /\ Cardinality(RoomsNamed(settled'[i].env.rid)) = 1 )
          => \A j \in 1..Len(rooms') : rooms'[j].name # settled'[i].env.rid]_vars

\* ------------------------------------------------------------ claims: sessions
\* The application sets the auth token on the new object, before it uses it.
Setup == step.op = "new" /\ SetAuthToken

\* A session of an application that sets a token or not, connects and
\* closes as it likes; transports open and close, timers and deferred
\* callbacks run.
NextSession ==
    \/ Setup \/ Connect \/ Close
    \/ SockOpen \/ SockClose
    \/ ReconnectTimer \/ RunImmediate \/ PollTick

SpecSession == Init /\ [][NextSession]_vars

\* A session of an application that connects once, joins rooms and closes,
\* over a transport that the automatic reconnection replaces when it drops.
NextJoin ==
    \/ FirstConnect \/ JoinRoom \/ CloseCall
    \/ SockOpen \/ SockClose
    \/ ReconnectTimer \/ RunImmediate

SpecJoin == Init /\ [][NextJoin]_vars

\* The join envelopes the last task handed to the transport.
JoinWire == SelectSeq(wire, LAMBDA w : w.env.event = "room_join")

\* C12: a joinRoom(name) call appends the room to the registry and causes
\* one join envelope: at once when the state is open (none is queued for a
\* later open), otherwise at the next open and at no later one. So the join
\* envelopes transmitted at an open notification are for rooms joined while
\* not open since the open notification before it.
C12_JoinEnvelopeSentOnce ==
    [][/\ step'.op = "joinRoom" =>
            /\ Len(rooms') = Len(rooms) + 1
            /\ SubSeq(rooms', 1, Len(rooms)) = rooms
            /\ connectionState = "open" => joinedSinceOpen' = joinedSinceOpen
            /\ connectionState # "open" => wire' = <<>>
       /\ step'.op = "open" =>
            \A i \in 1..Len(JoinWire') : JoinWire'[i].env.rid \in joinedSinceOpen]_vars

\* ------------------------------------------------------------ claims: states
\* The connection state at the dispatches of `name` by the last task.
StatesAt(name) == {stateAt[i] : i \in {j \in 1..Len(emitted) : emitted[j] = name}}

\* C13: when a transport close notification is processed, the state is
\* `close` when the `close` listeners are invoked and when the handler
\* returns, with automatic reconnection enabled or not.
C13_StateCloseAtCloseListeners ==
    step.op = "close.event" =>
        /\ Emitted("close")
        /\ StatesAt("close") = {"close"}
        /\ connectionState = "close"

\* C14: connect() called while the state is `connecting` or `open` creates
\* no transport, emits no `connecting` event and leaves the state and the
\* current transport unchanged.
C14_ConnectWhileConnectingOrOpen ==
    [][step'.op = "connect" /\ connectionState \in {"connecting", "open"} =>
            /\ sockets' = sockets
            /\ websocket' = websocket
            /\ connectionState' = connectionState
            /\ ~Emitted("connecting")']_vars

\* C15: after close() and a fresh connect() (closeCalled is false again),
\* the unexpected close of the opened transport the connection holds
\* schedules a reconnection attempt when the interval is positive (and the
\* server did not reject the connection).
C15_ReconnectEnabledAgainByConnect ==
    [][( /\ step'.op = "close.event"
         /\ step'.sock = websocket
         /\ sockets[websocket] = "OPEN"
         /\ ~closeCalled
         /\ canReconnect
         /\ reconnectionInterval # 0 )
        => reconnectionTimeout' \in timers' \ timers]_vars

\* C16: after close() has taken effect and the transport the connection
\* holds has closed, the state is the terminal state `closed`.
C16_ClosedAfterClose ==
    ( /\ closeCalled
      /\ immediates = <<>>
      /\ websocket # NoSocket
      /\ sockets[websocket] = "CLOSED" )
    => connectionState = "closed"

\* ------------------------------------------------------------ claims: close()
\* The callbacks of close() calls waiting in the setImmediate queue.
PendingClose(q) == Cardinality({i \in 1..Len(q) : q[i] = "close"})

Disconnects == Cardinality({i \in 1..Len(emitted) : emitted[i] = "custom.disconnect"})

\* C17: a close() call emits no `disconnect` inside the call and defers
\* one callback; that callback, in its own later tick, emits `disconnect`
\* exactly once; no other task emits it, and none drops a deferred callback.
C17_DisconnectOncePerClose ==
    [][/\ step'.op = "close" =>
            /\ Disconnects' = 0
            /\ PendingClose(immediates') = PendingClose(immediates) + 1
       /\ (step'.op = "immediate" /\ Head(immediates) = "close") =>
            /\ Disconnects' = 1
            /\ PendingClose(immediates') = PendingClose(immediates) - 1
       /\ (step'.op # "close" /\ ~(step'.op = "immediate" /\ Head(immediates) = "close")) =>
            /\ Disconnects' = 0
            /\ PendingClose(immediates') = PendingClose(immediates)]_vars

\* The deferred callback of a close() made on an open connection has run.
C17_Witness ==
    /\ step.op = "immediate"
    /\ Disconnects = 1
    /\ closeCalled
    /\ connectionState = "open"

\* C18: when close() is called while the state is open, a leave envelope
\* for every room of the registry is handed to the transport in the call,
\* before the deferred close of the transport.
C18_CloseLeavesEveryRoom ==
    [][step'.op = "close" /\ connectionState = "open" =>
        \A r \in 1..Len(rooms) :
            \E i \in 1..Len(wire') :
                /\ wire'[i].env.event = "room_leave"
                /\ wire'[i].env.rid = rooms[r].name]_vars

\* ------------------------------------------------------------ claims: the open notification
\* The positions of `name` among the dispatches of the last task.
DispatchesOf(name) == {i \in 1..Len(emitted) : emitted[i] = name}

\* C19: at a transport open notification `reconnect` is emitted exactly
\* when the state just before was `reconnecting`, once, and before the
\* `open` event of the notification; afterwards the state is `open`.
C19_ReconnectEmittedBeforeOpen ==
    [][step'.op = "open" =>
        /\ Cardinality(DispatchesOf("reconnect")') =
                (IF connectionState = "reconnecting" THEN 1 ELSE 0)
        /\ Cardinality(DispatchesOf("open")') = 1
        /\ \A i \in DispatchesOf("reconnect")', j \in DispatchesOf("open")' : i < j
        /\ connectionState' = "open"]_vars

\* A transport opened while the state was `reconnecting`.
C19_Witness ==
    /\ step.op = "open"
    /\ emitted = <<"reconnect", "open">>
    /\ connectionState = "open"

\* The `auth.token` envelopes the last task handed to a transport.
AuthWire == SelectSeq(wire, LAMBDA w : w.env.event = "auth.token")

\* C20: at every transport open notification received while an auth token
\* is set, exactly one `auth.token` envelope is transmitted, on the
\* transport that opened; when no token is set, none is.
C20_AuthTokenSentAtEveryOpen ==
    [][step'.op = "open" =>
        IF defaultAuthToken # ""
        THEN /\ Len(AuthWire') = 1
             /\ AuthWire'[1].sock = step'.sock
        ELSE AuthWire' = <<>>]_vars

\* ------------------------------------------------------------ claims: the error notification
\* The transport instances that exist.
Instances == {s \in SocketIds : sockets[s] # "NONE"}

\* C21: a transport error notification sets the state to `error` and emits
\* `error` once and nothing else; it schedules no reconnect timer, defers no
\* close and creates no transport. A reconnect timer is scheduled only by
\* the handler of a close notification or by reconnect().
C21_ErrorDoesNotReconnect ==
    [][/\ step'.op = "error" =>
            /\ connectionState' = "error"
            /\ emitted' = <<"error">>
            /\ timers' = timers
            /\ reconnectionTimeout' = reconnectionTimeout
            /\ immediates' = immediates
            /\ websocket' = websocket
            /\ Instances' \subseteq Instances
       /\ ~(timers' \subseteq timers) => step'.op \in {"close.event", "reconnect"}]_vars

\* The error of the transport of a connection that reconnects automatically.
C21_Witness ==
    /\ step.op = "error"
    /\ step.sock = websocket
    /\ connectionState = "error"
    /\ willReconnect /\ canReconnect /\ reconnectionInterval # 0
    /\ timers = {}

\* ------------------------------------------------------------ claims: keepalive
\* The application enables the client ping on the new object.
SetupPing == step.op = "new" /\ EnableClientPing

\* A connection with or without client ping: connect() calls, transports
\* that open and close, the reconnection and the keepalive timers.
NextPing ==
    \/ SetupPing \/ Connect
    \/ SockOpen \/ SockClose
    \/ ReconnectTimer \/ RunImmediate \/ PollTick \/ PingTimer

SpecPing == Init /\ [][NextPing]_vars

\* C22: a keepalive timer is started only by an open notification and only
\* if client ping is enabled; at most one is live at any time; after a
\* transport close notification has been processed none is live.
C22_KeepaliveTiedToOpen ==
    [][/\ ~(pingTimers' \subseteq pingTimers) => step'.op = "open" /\ isClientPingEnabled
       /\ Cardinality(pingTimers') <= 1
       /\ step'.op = "close.event" => pingTimers' = {}]_vars

\* ------------------------------------------------------------ claims: event dispatch
ControlEvents == {"ping", "pong", "conn.rejected"}

\* C23: an inbound envelope whose event name is not empty and not a control
\* event is dispatched once on `event` and once on `event.<name>`; a control
\* event (`ping`, `pong`, `conn.rejected`) is dispatched on neither.
C23_ApplicationEventsDispatchedOnce ==
    step.op = "message" =>
        IF step.inb.event \in ControlEvents
        THEN /\ DispatchesOf("event") = {}
             /\ DispatchesOf("event." \o step.inb.event) = {}
        ELSE step.inb.event # "" =>
             /\ Cardinality(DispatchesOf("event")) = 1
             /\ Cardinality(DispatchesOf("event." \o step.inb.event)) = 1

\* ------------------------------------------------------------ claims: send failure
\* The fields of the connection a send() must leave alone.
Settings ==
    <<connectionState, willReconnect, canReconnect, reconnectionInterval,
      sockets, websocket, timers, reconnectionTimeout, immediates, polls,
      rooms, onOpen, onceOpen>>

\* C24: when the transport's send throws in a send() call, the promise of
\* that call is rejected and nothing else changes: not the state, the
\* reconnect settings, the transports, the room registry or the other
\* promises; no event is emitted and nothing is thrown to the caller.
\* Whenever a task rejects a send, it emits no `error` event.
C24_SendFailureRejectsOnlyThatCall ==
    [][/\ (step'.op = "send" /\ promise'[nextSend] = "rejected") =>
            /\ Settings' = Settings
            /\ \A k \in 1..MaxSends : k # nextSend => promise'[k] = promise[k]
            /\ emitted' = <<>>
            /\ ~uncaught'
       /\ (\E i \in 1..Len(settled') : settled'[i].outcome = "rejected") =>
            ~Emitted("error")']_vars

\* A second send() made in state `open` was rejected like the first.
C24_Witness ==
    /\ step.op = "send"
    /\ promise = <<"rejected", "rejected">>
    /\ connectionState = "open"

\* ------------------------------------------------------------ claims: the event bus
\* C25: a listener registered with once(name) is invoked by at most one
\* dispatch and is no longer registered after that dispatch: no one-shot
\* registration that a dispatch has invoked is in the registry.
C25_OneShotRunsOnce ==
    \A n \in BusNames :
        \A i \in 1..Len(listeners.once[n]) : listeners.once[n][i].runs = 0

\* The listeners registered under n, the persistent ones in registration
\* order and then the one-shot ones in registration order.
InOrder(n) ==
    [i \in 1..Len(listeners.on[n]) |-> [kind |-> "on", fn |-> listeners.on[n][i]]]
        \o [i \in 1..Len(listeners.once[n]) |->
                [kind |-> "once", fn |-> listeners.once[n][i].fn]]

Throwers(cs) == {i \in 1..Len(cs) : Throws(cs[i].fn)}

\* C27: when a listener throws during dispatch(name), the listeners ordered
\* after it are not invoked in that call and the exception reaches the
\* caller; when none throws, nothing is thrown.
C27_ThrowAbortsDispatch ==
    [][dispatched' # "" =>
        LET all == InOrder(dispatched') IN
        IF Throwers(all) = {}
        THEN ~thrown'
        ELSE /\ thrown'
             /\ calls' = SubSeq(all, 1, CHOOSE i \in Throwers(all) :
                                            \A j \in Throwers(all) : i <= j)]_vars

\* A persistent listener threw before a one-shot listener could run.
C27_Witness ==
    /\ dispatched = "chat"
    /\ thrown
    /\ calls = <<[kind |-> "on", fn |-> "f"], [kind |-> "on", fn |-> "boom"]>>
    /\ Len(listeners.once["chat"]) = 1

\* ------------------------------------------------------------ claims: envelopes of a room
\* Rooms joined, used and left over a connection that opens, is closed by
\* the other side and reconnects.
NextRoomSend ==
    \/ FirstConnect \/ SockOpen \/ SockClose \/ ReconnectTimer \/ RunImmediate
    \/ JoinRoom \/ RoomSend \/ LeaveRoom

SpecRoomSend == Init /\ [][NextRoomSend]_vars

\* The envelopes in a sequence of wire entries.
Envelopes(w) == [i \in 1..Len(w) |-> w[i].env]

\* What was appended to a sequence by the last task.
Appended(old, new) == SubSeq(new, Len(old) + 1, Len(new))

\* C28: every envelope a room sends (its join envelope, room.send and its
\* leave envelope) carries the receiver {type: 'room', id: name of that
\* room}: the envelope the call hands to the transport or queues, and the
\* join and queued envelopes handed over at a later `open`, whatever rooms
\* were joined and left before.
C28_RoomEnvelopeNamesItsRoom ==
    [][/\ step'.op \in {"joinRoom", "room.send", "leaveRoom"} =>
            LET handed == IF connectionState = "open"
                          THEN Envelopes(wire')
                          ELSE Appended(onceOpen, onceOpen')
                joins  == Appended(onOpen, onOpen')
            IN  /\ Len(handed) + Len(joins) <= 1
                /\ step'.op = "joinRoom" /\ connectionState # "open" => joins = <<step'.room>>
                /\ step'.op # "joinRoom" /\ connectionState # "open" => Len(handed) = 1
                /\ \A i \in 1..Len(handed) :
                        /\ handed[i].rtype = "room" /\ handed[i].rid = step'.room
                        /\ handed[i].event =
                              CASE step'.op = "joinRoom"  -> "room_join"
                                [] step'.op = "room.send" -> "chat"
                                [] step'.op = "leaveRoom" -> "room_leave"
       /\ step'.op = "open" /\ step'.sock = websocket =>
            SelectSeq(Envelopes(wire'), LAMBDA e : e.rtype = "room")
                = [i \in 1..Len(onOpen) |-> joinEnv(onOpen[i])] \o onceOpen]_vars

\* The second room of the registry sent on an open connection, and the
\* envelope handed to the transport names that room, not the first.
C28_Witness ==
    /\ step.op = "room.send"
    /\ Len(rooms) = 2
    /\ rooms[1].name # rooms[2].name
    /\ step.room = rooms[2].name
    /\ wire = <<[env |-> Env("chat", "room", rooms[2].name, 0, 0), sock |-> websocket]>>

\* ------------------------------------------------------------ claims: deferred closes
\* The transports the last task closed.
ClosedByStep == {s \in SocketIds : Live(s) /\ sockets'[s] = "CLOSING"}

\* C29: a deferred transport close (the setImmediate callback queued by
\* close() or reconnect(), and the 250 ms poll) closes only the transport
\* that was current when the close was requested.
C29_DeferredCloseClosesRequestedTransport ==
    [][/\ step'.op = "immediate" => ClosedByStep \subseteq {Head(closeFor)}
       /\ step'.op = "poll" => ClosedByStep \subseteq {pollFor}]_vars

\* C30: an open, close or error notification from a transport that a
\* newer one has superseded does not change the connection state, schedules
\* no reconnection and queues no close of the newer transport.
C30_SupersededTransportIgnored ==
    [][( /\ step'.op \in {"open", "close.event", "error"}
         /\ websocket # NoSocket
         /\ step'.sock # websocket )
        => /\ connectionState' = connectionState
           /\ timers' = timers
           /\ immediates' = immediates
           /\ Live(websocket) => Live(websocket)']_vars

\* ------------------------------------------------------------ claims: leaves pending together
\* The names of the rooms whose leave envelope, sent by leaveRoom, the last
\* task resolved.
LeftByStep ==
    {settled[i].env.rid : i \in {j \in 1..Len(settled) :
        /\ settled[j].env.event = "room_leave"
        /\ settled[j].env.splice > 0
        /\ settled[j].outcome = "resolved"}}

\* No two rooms of the registry bear the same name.
DistinctRooms == \A i, j \in 1..Len(rooms) : rooms[i].name = rooms[j].name => i = j

\* C31: when the leave promises of several leaveRoom calls resolve together
\* (the calls were made while not open and are flushed at the next open),
\* each call removes the room it named: afterwards the registry is what it
\* was without the named rooms. Stated for a registry of distinct names.
C31_PendingLeavesRemoveNamedRooms ==
    [][(step'.op = "open" /\ DistinctRooms)
        => rooms' = SelectSeq(rooms, LAMBDA r : r.name \notin LeftByStep')]_vars

\* C32: after leaveRoom(name) has settled, no join envelope for that room
\* is transmitted at a later open notification, unless joinRoom(name) was
\* called again.
C32_NoJoinAfterLeave ==
    [][step'.op = "open" =>
        \A i \in 1..Len(JoinWire') : JoinWire'[i].env.rid \notin leftRooms]_vars

\* ------------------------------------------------------------ claims: the first envelope
\* An application that sets a token or not, connects once, sends and joins
\* rooms before and after the transport opens, over a transport that the
\* automatic reconnection replaces when it drops.
NextAuth ==
    \/ Setup \/ FirstConnect \/ Send \/ JoinRoom
    \/ SockOpen \/ SockClose \/ ReconnectTimer \/ RunImmediate

SpecAuth == Init /\ [][NextAuth]_vars

\* C33: at the open notification of a transport, with an auth token set,
\* the `auth.token` envelope is the first envelope handed to that transport:
\* before the envelopes queued by earlier send() calls and the join
\* envelopes of the rooms joined while not open.
C33_AuthTokenSentFirst ==
    [][(step'.op = "open" /\ defaultAuthToken # "")
        => wire' # <<>> /\ wire'[1].env.event = "auth.token"]_vars

\* ------------------------------------------------------------ claims: reentrant dispatch
\* The bus with one-shot listeners that dispatch their own name again.
NextReentry == BusOn \/ BusOnce \/ BusOnceAgain \/ BusDispatch

SpecReentry == Init /\ [][NextReentry]_vars

\* How many times the last dispatch invoked a one-shot listener that
\* dispatches again.
AgainCalls ==
    Cardinality({i \in 1..Len(calls) : calls[i] = [kind |-> "once", fn |-> "again"]})

\* C34: when a one-shot listener, while it is invoked, dispatches the same
\* name on the same bus, the nested dispatch does not invoke it again and
\* the outer dispatch terminates: with one such listener registered under
\* the name and no listener that throws, it is invoked once and the
\* dispatch returns to its caller.
C34_NestedDispatchSkipsRunningOneShot ==
    [][( /\ dispatched' # ""
         /\ Throwers(InOrder(dispatched')) = {}
         /\ Cardinality({i \in 1..Len(listeners.once[dispatched']) :
                Redispatches(listeners.once[dispatched'][i].fn)}) = 1 )
        => AgainCalls' = 1 /\ ~thrown']_vars

\* ------------------------------------------------------------ claims: envelopes without a party
\* Application envelopes with and without a sender, with a receiver (the
\* server) and without one (a broadcast).
AppInbounds ==
    {Inbound("chat", s, r, IF r = "none" THEN "" ELSE r) :
        s \in BOOLEAN, r \in {"none", "server"}}

AppMessage == SockMessage(AppInbounds)

\* A connection that the application configures, connects once and
\* closes, over a transport that delivers such envelopes, fails or drops,
\* and that the automatic reconnection replaces.
NextInbound ==
    \/ Setup \/ Configure \/ FirstConnect \/ CloseCall \/ AppMessage
    \/ SockOpen \/ SockError \/ SockClose \/ ReconnectTimer \/ RunImmediate

SpecInbound == Init /\ [][NextInbound]_vars

\* C35: an inbound application envelope without a receiver or without a
\* sender is delivered to the listeners of `message`, `event` and
\* `event.<name>`, and its handling raises no error.
C35_EnvelopeWithoutPartyDelivered ==
    ( /\ step.op = "message"
      /\ step.inb.event \notin ({""} \cup ControlEvents)
      /\ (~step.inb.hasSender \/ step.inb.rtype = "none") )
    => /\ Emitted("event") /\ Emitted("event." \o step.inb.event) /\ Emitted("message")
       /\ ~uncaught

\* ------------------------------------------------------------ claims: close before connect
\* C36: close() called before any connect() (no transport was created yet)
\* raises no error, neither in the call nor in the callbacks it defers, and
\* `disconnect` is still emitted by the callback close() queued.
C36_CloseBeforeConnectRaisesNothing ==
    [][(websocket = NoSocket /\ step'.op \in {"close", "immediate"})
        => /\ ~uncaught'
           /\ (step'.op = "immediate" /\ Head(immediates) = "close")
                => Emitted("custom.disconnect")']_vars

\* ------------------------------------------------------------ claims: the class Event
\* Nothing was registered under n, by on() or by once().
Fresh(n) == ~eventListeners.on[n].defined /\ ~eventListeners.once[n].defined

\* The one-shot listeners registered under n.
OneShots(n) == eventListeners.once[n].fns

\* C37: in the standalone class Event, once(name, listener) on a bus with
\* no earlier registration for name raises no error and registers the
\* listener as a one-shot listener; a dispatch(name) that completes invokes
\* the one-shot listeners of the name and leaves none of them registered,
\* and no listener registered by once() is invoked by a second dispatch.
C37_EventOnceRegistersOneShot ==
    [][/\ \A n \in BusNames :
            (Fresh(n) /\ eventListeners'.once[n].defined)
                => ~thrown' /\ Len(OneShots(n)') = 1
       /\ (dispatched' # "" /\ ~thrown') =>
            /\ eventListeners'.once[dispatched'].fns = <<>>
            /\ \A i \in 1..Len(OneShots(dispatched')) :
                    \E j \in 1..Len(calls') :
                        calls'[j] = [kind |-> "once", fn |-> OneShots(dispatched')[i].fn]
       /\ \A n \in BusNames : \A i \in 1..Len(eventListeners'.on[n].fns) :
            eventListeners'.on[n].fns[i].once => eventListeners'.on[n].fns[i].runs <= 1]_vars

====
